---- MODULE Spec2Model ----
(***************************************************************************)
(* A model of src/src/utils.js of u-express: the route pattern compiler,   *)
(* the route classification predicates, the conditional-request evaluator, *)
(* the proxy trust compiler and the query parser dispatcher.               *)
(*                                                                         *)
(* JavaScript strings are sequences of one-character strings, so that      *)
(* replaceAll, includes, split, substring and the regular expressions the  *)
(* code builds act on characters as they do in the program.                *)
(***************************************************************************)
EXTENDS Integers, Sequences, FiniteSets, TLC

VARIABLES
    pc,          \* position of the component under execution
    \* pattern compiler
    pattern,     \* route template handed to patternToRegex
    isPrefix,    \* second argument of patternToRegex
    regex,       \* the RegExp object patternToRegex returned
    path,        \* candidate path the RegExp is applied to
    result,      \* outcome of regex.exec(path)
    \* router
    routes,      \* the ordered route table
    reqPath,     \* the request path, duplicate separators collapsed
    idx,         \* index of the route whose handler runs next (-1: none)
    log,         \* indices of the routes whose handlers ran, in order
    response,    \* index of the route that responded (-1: 404, -2: none yet)
    \* conditional evaluator
    req,         \* request headers: if-match, if-unmodified-since, if-range
    res,         \* response headers: etag, last-modified
    precond,     \* value of isPreconditionFailure(req, res)
    fresh,       \* value of isRangeFresh(req, res)
    \* trust resolver
    trustVal,    \* the 'trust proxy' setting
    trustFn,     \* what compileTrust returned
    trustArgs,   \* the (address, hop index) the predicate is applied to
    trusted,     \* the predicate's answer
    \* query parser dispatcher
    query,       \* the raw query string
    parser       \* the parser fastQueryParse handed the query to, and its options

patternVars == <<pattern, isPrefix, regex, path, result>>
routerVars == <<routes, reqPath, idx, log, response>>
condVars == <<req, res, precond, fresh>>
trustVars == <<trustVal, trustFn, trustArgs, trusted>>
queryVars == <<query, parser>>
vars == <<pc, patternVars, routerVars, condVars, trustVars, queryVars>>

-----------------------------------------------------------------------------
(* Bounds of the model.                                                    *)

MaxPatternLen == 3
MaxPathLen == 3

-----------------------------------------------------------------------------
(* Strings.                                                                *)

\* All sequences over alphabet of length at most n.
RECURSIVE StringsUpTo(_, _)
StringsUpTo(alphabet, n) ==
    IF n = 0 THEN {<<>>}
    ELSE LET shorter == StringsUpTo(alphabet, n - 1)
         IN  shorter \cup {Append(s, c) : s \in shorter, c \in alphabet}

\* String.prototype.includes
includes(str, sub) ==
    \E i \in 1..(Len(str) - Len(sub) + 1) : SubSeq(str, i, i + Len(sub) - 1) = sub

\* String.prototype.startsWith
startsWith(str, sub) ==
    Len(sub) <= Len(str) /\ SubSeq(str, 1, Len(sub)) = sub

\* String.prototype.replaceAll with a one-character search string
RECURSIVE replaceAll(_, _, _)
replaceAll(str, ch, rep) ==
    IF str = <<>> THEN <<>>
    ELSE (IF Head(str) = ch THEN rep ELSE <<Head(str)>>)
         \o replaceAll(Tail(str), ch, rep)

\* The characters the class \w matches, among the characters of the model.
WordChars == {"a", "b", "x", "y", "W", "B", "E", "1", "2", "3", "5", "e", "g", "z"}

-----------------------------------------------------------------------------
(* The regular expression engine (the runtime's RegExp) on the syntax the  *)
(* pattern compiler emits: literals, \-escapes, ., negated classes, the    *)
(* anchors ^ and $, capturing and named groups, lookahead, alternation,    *)
(* and the greedy quantifiers * and +.                                     *)

Node(t, c, cs, name, body) ==
    [t |-> t, c |-> c, cs |-> cs, name |-> name, body |-> body]

RECURSIVE indexOfFrom(_, _, _)
\* index of the first ch in src at or after i, 0 when there is none
indexOfFrom(src, ch, i) ==
    IF i > Len(src) THEN 0
    ELSE IF src[i] = ch THEN i
    ELSE indexOfFrom(src, ch, i + 1)

RECURSIVE parseDisjunction(_, _)
RECURSIVE parseAlternative(_, _, _)
RECURSIVE parseTerm(_, _)

parseAtom(src, i) ==
    LET c == src[i] IN
    IF c = "^" THEN [node |-> Node("bol", "", {}, <<>>, <<>>), next |-> i + 1]
    ELSE IF c = "$" THEN [node |-> Node("eol", "", {}, <<>>, <<>>), next |-> i + 1]
    ELSE IF c = "." THEN [node |-> Node("any", "", {}, <<>>, <<>>), next |-> i + 1]
    ELSE IF c = "\\" THEN
        [node |-> Node("char", src[i + 1], {}, <<>>, <<>>), next |-> i + 2]
    ELSE IF c = "[" THEN
        LET close == indexOfFrom(src, "]", i + 1)
            neg   == src[i + 1] = "^"
            first == IF neg THEN i + 2 ELSE i + 1
        IN  [node |-> Node(IF neg THEN "notset" ELSE "set", "",
                           {src[k] : k \in first..(close - 1)}, <<>>, <<>>),
             next |-> close + 1]
    ELSE IF c = "(" THEN
        IF i + 2 <= Len(src) /\ src[i + 1] = "?" /\ src[i + 2] = "=" THEN
            LET d == parseDisjunction(src, i + 3)
            IN  [node |-> Node("look", "", {}, <<>>, d.alts), next |-> d.next + 1]
        ELSE IF i + 2 <= Len(src) /\ src[i + 1] = "?" /\ src[i + 2] = "<" THEN
            LET gt == indexOfFrom(src, ">", i + 3)
                d  == parseDisjunction(src, gt + 1)
            IN  [node |-> Node("named", "", {}, SubSeq(src, i + 3, gt - 1), d.alts),
                 next |-> d.next + 1]
        ELSE
            LET d == parseDisjunction(src, i + 1)
            IN  [node |-> Node("group", "", {}, <<>>, d.alts), next |-> d.next + 1]
    ELSE [node |-> Node("char", c, {}, <<>>, <<>>), next |-> i + 1]

parseTerm(src, i) ==
    LET a == parseAtom(src, i)
        q == IF a.next <= Len(src) THEN src[a.next] ELSE ""
    IN  IF q = "*" THEN
            [node |-> Node("star", "", {}, <<>>, << <<a.node>> >>), next |-> a.next + 1]
        ELSE IF q = "+" THEN
            [node |-> Node("plus", "", {}, <<>>, << <<a.node>> >>), next |-> a.next + 1]
        ELSE a

parseAlternative(src, i, acc) ==
    IF i > Len(src) \/ src[i] \in {"|", ")"} THEN [terms |-> acc, next |-> i]
    ELSE LET t == parseTerm(src, i)
         IN  parseAlternative(src, t.next, Append(acc, t.node))

parseDisjunction(src, i) ==
    LET a == parseAlternative(src, i, <<>>) IN
    IF a.next <= Len(src) /\ src[a.next] = "|" THEN
        LET r == parseDisjunction(src, a.next + 1)
        IN  [alts |-> <<a.terms>> \o r.alts, next |-> r.next]
    ELSE [alts |-> <<a.terms>>, next |-> a.next]

\* The names of the named groups of a disjunction, in source order.
RECURSIVE groupNames(_)
RECURSIVE groupNamesOfTerms(_)
groupNamesOfTerms(terms) ==
    IF terms = <<>> THEN <<>>
    ELSE LET n == Head(terms) IN
         (IF n.t = "named" THEN <<n.name>> ELSE <<>>)
         \o groupNames(n.body) \o groupNamesOfTerms(Tail(terms))

groupNames(alts) ==
    IF alts = <<>> THEN <<>>
    ELSE groupNamesOfTerms(Head(alts)) \o groupNames(Tail(alts))

\* new RegExp(source): a SyntaxError is raised for a duplicate group name (and
\* for a name that starts with a digit, which no template of PatternChars has).
RegExp(source) ==
    LET ast   == parseDisjunction(source, 1).alts
        names == groupNames(ast)
        dup   == \E i, j \in 1..Len(names) : i < j /\ names[i] = names[j]
    IN  [source |-> source, ok |-> ~dup,
         ast |-> IF dup THEN <<>> ELSE ast, names |-> names]

(* Matching is backtracking in priority order: every matcher returns the   *)
(* sequence of states it can end in, the engine's first choice first.  A   *)
(* state is the number of characters consumed and the groups captured.     *)

setGroup(groups, name, value) ==
    SelectSeq(groups, LAMBDA g : g.name /= name)
        \o <<[name |-> name, value |-> value]>>

RECURSIVE matchDisj(_, _, _, _)
RECURSIVE matchAlt(_, _, _, _)
RECURSIVE matchTermAll(_, _, _)
RECURSIVE matchTerm(_, _, _)
RECURSIVE matchStar(_, _, _)
RECURSIVE matchStarAll(_, _, _)

matchTerm(n, s, st) ==
    LET step == <<[pos |-> st.pos + 1, groups |-> st.groups]>>
        more == st.pos < Len(s)
    IN
    IF n.t = "char" THEN IF more /\ s[st.pos + 1] = n.c THEN step ELSE <<>>
    \* "." matches every character but a line terminator; paths hold none
    ELSE IF n.t = "any" THEN IF more THEN step ELSE <<>>
    ELSE IF n.t = "notset" THEN IF more /\ s[st.pos + 1] \notin n.cs THEN step ELSE <<>>
    ELSE IF n.t = "set" THEN IF more /\ s[st.pos + 1] \in n.cs THEN step ELSE <<>>
    ELSE IF n.t = "bol" THEN IF st.pos = 0 THEN <<st>> ELSE <<>>
    ELSE IF n.t = "eol" THEN IF st.pos = Len(s) THEN <<st>> ELSE <<>>
    ELSE IF n.t = "group" THEN matchDisj(n.body, 1, s, st)
    ELSE IF n.t = "named" THEN
        LET rs == matchDisj(n.body, 1, s, st)
        IN  [k \in 1..Len(rs) |->
                [pos |-> rs[k].pos,
                 groups |-> setGroup(rs[k].groups, n.name,
                                     SubSeq(s, st.pos + 1, rs[k].pos))]]
    ELSE IF n.t = "look" THEN
        LET rs == matchDisj(n.body, 1, s, st)
        IN  IF rs = <<>> THEN <<>>
            ELSE <<[pos |-> st.pos, groups |-> rs[1].groups]>>
    ELSE IF n.t = "star" THEN matchStar(n, s, st)
    ELSE \* plus: one iteration, then as many as possible
        matchStarAll(n, s, matchDisj(n.body, 1, s, st))

matchStar(n, s, st) ==
    LET once == SelectSeq(matchDisj(n.body, 1, s, st), LAMBDA r : r.pos > st.pos)
    IN  matchStarAll(n, s, once) \o <<st>>

matchStarAll(n, s, sts) ==
    IF sts = <<>> THEN <<>>
    ELSE matchStar(n, s, Head(sts)) \o matchStarAll(n, s, Tail(sts))

matchTermAll(n, s, sts) ==
    IF sts = <<>> THEN <<>>
    ELSE matchTerm(n, s, Head(sts)) \o matchTermAll(n, s, Tail(sts))

matchAlt(terms, k, s, sts) ==
    IF k > Len(terms) \/ sts = <<>> THEN sts
    ELSE matchAlt(terms, k + 1, s, matchTermAll(terms[k], s, sts))

matchDisj(alts, k, s, st) ==
    IF k > Len(alts) THEN <<>>
    ELSE matchAlt(alts[k], 1, s, <<st>>) \o matchDisj(alts, k + 1, s, st)

NoMatch == [matched |-> FALSE, groups |-> <<>>]

\* RegExp.prototype.exec: the first start position with a match wins.
RECURSIVE execFrom(_, _, _)
execFrom(re, s, start) ==
    IF start > Len(s) THEN NoMatch
    ELSE LET rs == matchDisj(re.ast, 1, s, [pos |-> start, groups |-> <<>>])
         IN  IF rs /= <<>> THEN [matched |-> TRUE, groups |-> rs[1].groups]
             ELSE execFrom(re, s, start + 1)

exec(re, s) == execFrom(re, s, 0)

\* the value of a named group of a match (the empty string when unset)
groupValue(m, name) ==
    LET hits == SelectSeq(m.groups, LAMBDA g : g.name = name)
    IN  IF hits = <<>> THEN <<>> ELSE hits[1].value

-----------------------------------------------------------------------------
(* The pattern compiler.                                                   *)

RECURSIVE wordRunEnd(_, _)
\* index of the last character of the run \w+ starting at i (i - 1: no run)
wordRunEnd(s, i) ==
    IF i <= Len(s) /\ s[i] \in WordChars THEN wordRunEnd(s, i + 1) ELSE i - 1

\* (\(.+?\))? after a name ending at e: the index of the closing parenthesis
\* of the subpattern, 0 when the optional group does not take part
subpatternEnd(s, e) ==
    IF e + 1 <= Len(s) /\ s[e + 1] = "(" /\ (\E k \in (e + 3)..Len(s) : s[k] = ")")
    THEN CHOOSE k \in (e + 3)..Len(s) :
            s[k] = ")" /\ \A m \in (e + 3)..(k - 1) : s[m] /= ")"
    ELSE 0

\* the replacement callback with "." in place of the class [^/]
paramGroupAnyChar(param, sub) ==
    <<"(", "?", "<">> \o param \o <<">">>
    \o (IF sub /= <<>> THEN sub \o <<"(", "$", "|", "\\", "/", ")">>
        ELSE <<".", "+">>)
    \o <<")">>

\* the replacement callback of the :param rewrite
paramGroup(param, sub) ==
    <<"(", "?", "<">> \o param \o <<">">>
    \o (IF sub /= <<>> THEN sub \o <<"(", "$", "|", "\\", "/", ")">>
        ELSE <<"[", "^", "/", "]", "+">>)
    \o <<")">>

RECURSIVE replaceParams(_, _)
\* .replace(/:(\w+)(\(.+?\))?/g, callback)
replaceParams(s, i) ==
    IF i > Len(s) THEN <<>>
    ELSE IF s[i] = ":" /\ wordRunEnd(s, i + 1) >= i + 1 THEN
        LET e   == wordRunEnd(s, i + 1)
            k   == subpatternEnd(s, e)
            sub == IF k = 0 THEN <<>> ELSE SubSeq(s, e + 1, k)
            nxt == IF k = 0 THEN e + 1 ELSE k + 1
        IN  paramGroup(SubSeq(s, i + 1, e), sub) \o replaceParams(s, nxt)
    ELSE <<s[i]>> \o replaceParams(s, i + 1)

\* the tail of the expression without the lookahead of a prefix
endAnchorOpen(prefix) ==
    IF prefix THEN <<>> ELSE <<"$">>

\* the tail of the expression: a lookahead for a prefix, an end anchor otherwise
endAnchor(prefix) ==
    IF prefix THEN <<"(", "?", "=", "$", "|", "/", ")">> ELSE <<"$">>

regexPattern(pat) ==
    replaceParams(
        replaceAll(
            replaceAll(
                replaceAll(pat, ".", <<"\\", ".">>),
                "-", <<"\\", "-">>),
            "*", <<"(", ".", "*", ")">>),
        1)

\* patternToRegex for a string pattern (a pattern that is already a RegExp is
\* returned as it is and is not among the templates of the model)
patternToRegex(pat, prefix) ==
    IF prefix /\ pat = <<>> THEN RegExp(<<>>)
    ELSE RegExp(<<"^">> \o regexPattern(pat) \o endAnchor(prefix))

SpecialChars == {"*", "?", "+", "(", ")", ":", "{", "}", "[", "]"}

needsConversionToRegex(pat) ==
    IF pat = <<"/", "*">> THEN FALSE
    ELSE \E c \in SpecialChars : includes(pat, <<c>>)

canBeOptimized(pat) ==
    IF pat = <<"/", "*">> THEN FALSE
    ELSE ~ \E c \in SpecialChars \ {":"} : includes(pat, <<c>>)

-----------------------------------------------------------------------------
(* Route compilation and matching: a template is compiled once, and the    *)
(* compiled expression is then applied to candidate paths.                 *)

PatternChars == {"/", "a", ".", "-", ":", "*", "$"}
PathChars == {"/", "a", ".", "$"}
Patterns == StringsUpTo(PatternChars, MaxPatternLen)
Paths == StringsUpTo(PathChars, MaxPathLen)

NoRegExp == [source |-> <<>>, ok |-> FALSE, ast |-> <<>>, names |-> <<>>]


\* Header values: undefined (the header is not set) or a string.
Undefined == [defined |-> FALSE, text |-> <<>>]
Str(t) == [defined |-> TRUE, text |-> t]
\* JavaScript truthiness of a header value: set and not the empty string
Truthy(h) == h.defined /\ h.text /= <<>>

\* The components at rest: the values each keeps while another one runs.
IdlePattern ==
    /\ pattern = <<>>
    /\ isPrefix = FALSE
    /\ regex = NoRegExp
    /\ path = <<>>
    /\ result = NoMatch

IdleRouter ==
    /\ routes = <<>>
    /\ reqPath = <<>>
    /\ idx = -1
    /\ log = <<>>
    /\ response = -2

IdleCond ==
    /\ req = [ifMatch |-> Undefined, ifUnmodifiedSince |-> Undefined,
              ifRange |-> Undefined]
    /\ res = [etag |-> Undefined, lastModified |-> Undefined]
    /\ precond = FALSE
    /\ fresh = FALSE

NoValue == [type |-> "undefined", bool |-> FALSE, num |-> 0, text |-> <<>>,
            items |-> <<>>]
NoPredicate == [threw |-> FALSE, kind |-> "none", id |-> 0, n |-> 0, list |-> <<>>]

IdleTrust ==
    /\ trustVal = NoValue
    /\ trustFn = NoPredicate
    /\ trustArgs = [addr |-> <<>>, i |-> 0]
    /\ trusted = FALSE

IdleQuery ==
    /\ query = <<>>
    /\ parser = [name |-> "none", options |-> FALSE]

InitPattern ==
    /\ pc = "start"
    /\ pattern \in Patterns
    /\ isPrefix \in BOOLEAN
    /\ regex = NoRegExp
    /\ path = <<>>
    /\ result = NoMatch
    /\ IdleRouter /\ IdleCond /\ IdleTrust /\ IdleQuery

\* registration: the template is compiled once; new RegExp may raise
Compile ==
    /\ pc = "start"
    /\ regex' = patternToRegex(pattern, isPrefix)
    /\ pc' = IF regex'.ok THEN "compiled" ELSE "threw"
    /\ UNCHANGED <<pattern, isPrefix, path, result>>
    /\ UNCHANGED <<routerVars, condVars, trustVars, queryVars>>

\* request time: the compiled expression is applied to a candidate path
Match ==
    /\ pc = "compiled"
    /\ \E p \in Paths :
        /\ path' = p
        /\ result' = exec(regex, p)
    /\ pc' = "matched"
    /\ UNCHANGED <<pattern, isPrefix, regex>>
    /\ UNCHANGED <<routerVars, condVars, trustVars, queryVars>>

NextPattern == Compile \/ Match

SpecPattern == InitPattern /\ [][NextPattern]_vars

-----------------------------------------------------------------------------
(* Claims about the pattern compiler.                                      *)

\* Characters that stand for themselves in a template: the compiler either
\* leaves them alone and they mean nothing to RegExp ("/", "a") or escapes
\* them ("." and "-").
LiteralChars == {"/", "a", ".", "-"}
IsLiteral(s) == \A k \in 1..Len(s) : s[k] \in LiteralChars

\* A template of literal text around one :name token without a subpattern.
TokenStart == CHOOSE i \in 1..Len(pattern) : pattern[i] = ":"
TokenEnd ==
    CHOOSE e \in TokenStart..Len(pattern) :
        /\ \A k \in (TokenStart + 1)..e : pattern[k] \in WordChars
        /\ e < Len(pattern) => pattern[e + 1] \notin WordChars
TokenName == SubSeq(pattern, TokenStart + 1, TokenEnd)
Before == SubSeq(pattern, 1, TokenStart - 1)
After == SubSeq(pattern, TokenEnd + 1, Len(pattern))
HasOneToken ==
    /\ \E i \in 1..Len(pattern) : pattern[i] = ":"
    /\ TokenName /= <<>>
    /\ IsLiteral(Before)
    /\ IsLiteral(After)

\* the path is the template with the token replaced by a run without "/"
RunStart == Len(Before) + 1
RunEnd == Len(path) - Len(After)
PathFillsToken ==
    /\ RunEnd >= RunStart
    /\ SubSeq(path, 1, Len(Before)) = Before
    /\ SubSeq(path, RunEnd + 1, Len(path)) = After
    /\ \A k \in RunStart..RunEnd : path[k] /= "/"

\* C1: for a non-prefix template of literal segments and one :name token
\* without a subpattern, the compiled expression matches a path iff the path
\* is the template with the token replaced by a non-empty run of characters
\* other than "/", and on a match the group called name holds that run.
C1_ParamTokenMatchesOneSegment ==
    (pc = "matched" /\ ~isPrefix /\ HasOneToken) =>
        /\ result.matched <=> PathFillsToken
        /\ result.matched =>
              groupValue(result, TokenName) = SubSeq(path, RunStart, RunEnd)

\* "/:a" applied to "/a" matched and bound a to "a".
C1_Witness ==
    /\ pc = "matched" /\ ~isPrefix
    /\ pattern = <<"/", ":", "a">>
    /\ path = <<"/", "a">>
    /\ result.matched
    /\ groupValue(result, <<"a">>) = <<"a">>

\* C2: a literal template P compiled as a prefix accepts a path iff the path
\* is P or starts with P followed by "/"; the empty template accepts every
\* path.
C2_PrefixMatchesAtSegmentBoundary ==
    (pc = "matched" /\ isPrefix /\ IsLiteral(pattern)) =>
        (result.matched <=>
            \/ pattern = <<>>
            \/ path = pattern
            \/ startsWith(path, pattern \o <<"/">>))

\* the prefix "/a" was applied to "/aa" and rejected it
C2_Witness ==
    /\ pc = "matched" /\ isPrefix
    /\ pattern = <<"/", "a">>
    /\ path = <<"/", "a", "a">>
    /\ ~result.matched

\* C8: for a template that canBeOptimized classifies STATIC and that holds
\* none of the characters * ? + ( ) : { } [ ], the expression patternToRegex
\* builds matches a path iff the path is identical to the template.
C8_StaticEqualityAgreesWithRegex ==
    (/\ pc = "matched" /\ ~isPrefix
     /\ canBeOptimized(pattern)
     /\ \A k \in 1..Len(pattern) : pattern[k] \notin SpecialChars) =>
        (result.matched <=> path = pattern)

-----------------------------------------------------------------------------
(* The router.  Its source is not part of src/; it is modelled from the    *)
(* specification: templates are compiled in registration order into an     *)
(* ordered list, a template that passes the optimizable test is STATIC and *)
(* matched by equality with its literal text, any other is DYNAMIC and     *)
(* matched by its compiled expression, and a request walks the list from   *)
(* the top, each handler either responding or calling next().              *)

MaxRoutes == 2

RECURSIVE removeDuplicateSlashes(_)
\* path.replace(/\/{2,}/g, '/')
removeDuplicateSlashes(p) ==
    IF p = <<>> THEN <<>>
    ELSE IF Len(p) >= 2 /\ p[1] = "/" /\ p[2] = "/"
         THEN removeDuplicateSlashes(Tail(p))
         ELSE <<Head(p)>> \o removeDuplicateSlashes(Tail(p))

\* findIndexStartingFrom(arr, fn, index), indices counted from 0; the
\* callback fn is a function from the elements of arr to BOOLEAN
findIndexStartingFrom(arr, fn, index) ==
    LET hits == {i \in index..(Len(arr) - 1) : fn[arr[i + 1]]}
    IN  IF hits = {} THEN -1
        ELSE CHOOSE i \in hits : \A j \in hits : i <= j

RouteTemplates ==
    {<<"/", "a">>, <<"/", ":", "a">>, <<"/", "b">>, <<"/", "*">>}
Handlers == {"next", "send"}
RequestPaths ==
    {<<"/", "a">>, <<"/", "b">>, <<"/", "/", "a">>, <<"/", "a", "/", "b">>}

\* Pattern Compiler, steps 2 and 3: classification and compilation
compileRoute(template, handler) ==
    LET static == canBeOptimized(template) IN
    [path |-> template,
     classification |-> IF static THEN "STATIC" ELSE "DYNAMIC",
     matcher |-> IF static THEN NoRegExp ELSE patternToRegex(template, FALSE),
     handler |-> handler]

\* Pattern Compiler, step 4: the exact-match table or the expression
routeMatches(route, p) ==
    IF route.classification = "STATIC" THEN p = route.path
    ELSE exec(route.matcher, p).matched

\* the walk of the route table for path p, from index from on
nextRoute(p, from) ==
    findIndexStartingFrom(
        routes,
        [r \in {routes[k] : k \in 1..Len(routes)} |-> routeMatches(r, p)],
        from)

InitRouter ==
    /\ pc = "registering"
    /\ IdleRouter
    /\ IdlePattern /\ IdleCond /\ IdleTrust /\ IdleQuery

\* app.get(template, handler)
Register ==
    /\ pc = "registering"
    /\ Len(routes) < MaxRoutes
    /\ \E t \in RouteTemplates, h \in Handlers :
        routes' = Append(routes, compileRoute(t, h))
    /\ UNCHANGED <<pc, reqPath, idx, log, response>>
    /\ UNCHANGED <<patternVars, condVars, trustVars, queryVars>>

\* app.listen
Listen ==
    /\ pc = "registering"
    /\ pc' = "listening"
    /\ UNCHANGED <<routerVars, patternVars, condVars, trustVars, queryVars>>

\* a request arrives: its path is normalised and the walk starts at the top
Request ==
    /\ pc = "listening"
    /\ \E p \in RequestPaths :
        /\ reqPath' = removeDuplicateSlashes(p)
        /\ idx' = nextRoute(removeDuplicateSlashes(p), 0)
    /\ pc' = "dispatching"
    /\ UNCHANGED <<routes, log, response>>
    /\ UNCHANGED <<patternVars, condVars, trustVars, queryVars>>

\* the handler of the current route runs and calls next()
HandlerCallsNext ==
    /\ pc = "dispatching"
    /\ idx /= -1
    /\ routes[idx + 1].handler = "next"
    /\ log' = Append(log, idx)
    /\ idx' = nextRoute(reqPath, idx + 1)
    /\ UNCHANGED <<pc, routes, reqPath, response>>
    /\ UNCHANGED <<patternVars, condVars, trustVars, queryVars>>

\* the handler of the current route runs and sends the response
HandlerResponds ==
    /\ pc = "dispatching"
    /\ idx /= -1
    /\ routes[idx + 1].handler = "send"
    /\ log' = Append(log, idx)
    /\ response' = idx
    /\ pc' = "responded"
    /\ UNCHANGED <<routes, reqPath, idx>>
    /\ UNCHANGED <<patternVars, condVars, trustVars, queryVars>>

\* no route is left: the request is answered 404
NotFound ==
    /\ pc = "dispatching"
    /\ idx = -1
    /\ response' = -1
    /\ pc' = "responded"
    /\ UNCHANGED <<routes, reqPath, idx, log>>
    /\ UNCHANGED <<patternVars, condVars, trustVars, queryVars>>

NextRouter ==
    \/ Register
    \/ Listen
    \/ Request
    \/ HandlerCallsNext
    \/ HandlerResponds
    \/ NotFound

SpecRouter == InitRouter /\ [][NextRouter]_vars

\* The routes a request path matches, by the meaning of their templates:
\* the path is accepted by the expression the template compiles to.
templateMatches(template, p) == exec(patternToRegex(template, FALSE), p).matched

RECURSIVE handlersDue(_, _)
\* the handlers that must run for reqPath, from route i on: every matching
\* route in registration order, up to the first one that responds
handlersDue(i, p) ==
    IF i >= Len(routes) THEN <<>>
    ELSE IF ~templateMatches(routes[i + 1].path, p) THEN handlersDue(i + 1, p)
    ELSE IF routes[i + 1].handler = "send" THEN <<i>>
    ELSE <<i>> \o handlersDue(i + 1, p)

\* C3: routes are tried in registration order whatever their classification:
\* once the request is answered, the handlers that ran are exactly the routes
\* whose template matches the path, in registration order, up to the first
\* that responds, and that one produced the response (GET /test over '/test'
\* then '/:test' runs handler 1, then handler 2, which responds).
C3_RegistrationOrderAcrossClassifications ==
    pc = "responded" =>
        /\ log = handlersDue(0, reqPath)
        /\ response = (IF log /= <<>> /\ routes[log[Len(log)] + 1].handler = "send"
                       THEN log[Len(log)] ELSE -1)

-----------------------------------------------------------------------------
(* The conditional evaluator.                                              *)

MaxHeaderLen == 4
MaxTagLen == 3
MaxTime == 3

\* The value Date.parse returns for a text that is not a date, and
\* parseHttpDate for anything that is not a number.
NaN == -1
isNaN(x) == x = NaN
\* comparisons of numbers: false as soon as one side is NaN
jsGreater(a, b) == ~isNaN(a) /\ ~isNaN(b) /\ a > b
jsLessOrEqual(a, b) == ~isNaN(a) /\ ~isNaN(b) /\ a <= b

\* Date.parse: the text of the date with timestamp t is t times the
\* character "1" (a later date is a longer text); no other text is a date.
DateText(t) == [k \in 1..t |-> "1"]
DateParse(text) ==
    IF text /= <<>> /\ \A k \in 1..Len(text) : text[k] = "1" THEN Len(text)
    ELSE NaN

RECURSIVE tokenLoop(_, _, _, _, _)
\* the loop of parseTokenList at index i (from 0), with its final push
tokenLoop(str, i, start, end, list) ==
    IF i >= Len(str) THEN
        IF start /= end THEN Append(list, SubSeq(str, start + 1, end)) ELSE list
    ELSE IF str[i + 1] = " " THEN
        IF start = end THEN tokenLoop(str, i + 1, i + 1, i + 1, list)
        ELSE tokenLoop(str, i + 1, start, end, list)
    ELSE IF str[i + 1] = "," THEN
        tokenLoop(str, i + 1, i + 1, i + 1,
                  IF start /= end THEN Append(list, SubSeq(str, start + 1, end))
                  ELSE list)
    ELSE tokenLoop(str, i + 1, start, i + 1, list)

parseTokenList(str) == tokenLoop(str, 0, 0, 0, <<>>)

parseHttpDate(date) ==
    IF Truthy(date) THEN DateParse(date.text) ELSE NaN

weak(tag) == <<"W", "/">> \o tag

\* the callback of every(): the token matches the tag in none of the forms
etagMismatchExactOnly(token, etag) ==
    token /= etag /\ token /= weak(etag)

etagMismatch(token, etag) ==
    token /= etag /\ token /= weak(etag) /\ weak(token) /= etag

\* the if-match branch
ifMatchFailsWithoutStar(match, etag) ==
    \/ ~Truthy(etag)
    \/ LET tokens == parseTokenList(match)
       IN  \A k \in 1..Len(tokens) : etagMismatch(tokens[k], etag.text)

ifMatchFails(match, etag) ==
    \/ ~Truthy(etag)
    \/ /\ match /= <<"*">>
       /\ LET tokens == parseTokenList(match)
          IN  \A k \in 1..Len(tokens) : etagMismatch(tokens[k], etag.text)

\* the if-unmodified-since branch
unmodifiedSinceFailsOnEqual(header, lastModifiedHeader) ==
    LET unmodifiedSince == parseHttpDate(header) IN
    IF ~isNaN(unmodifiedSince) THEN
        LET lastModified == parseHttpDate(lastModifiedHeader)
        IN  isNaN(lastModified) \/ lastModified >= unmodifiedSince
    ELSE FALSE

unmodifiedSinceFails(header, lastModifiedHeader) ==
    LET unmodifiedSince == parseHttpDate(header) IN
    IF ~isNaN(unmodifiedSince) THEN
        LET lastModified == parseHttpDate(lastModifiedHeader)
        IN  isNaN(lastModified) \/ jsGreater(lastModified, unmodifiedSince)
    ELSE FALSE

isPreconditionFailure(rq, rs) ==
    IF Truthy(rq.ifMatch) THEN ifMatchFails(rq.ifMatch.text, rs.etag)
    ELSE unmodifiedSinceFails(rq.ifUnmodifiedSince, rs.lastModified)

\* if-range as modified date
rangeDateFreshStrict(lastModified, ifRange) ==
    LET a == parseHttpDate(lastModified)
        b == parseHttpDate(ifRange)
    IN  ~isNaN(a) /\ ~isNaN(b) /\ a < b

rangeDateFresh(lastModified, ifRange) ==
    jsLessOrEqual(parseHttpDate(lastModified), parseHttpDate(ifRange))

isRangeFresh(rq, rs) ==
    IF ~Truthy(rq.ifRange) THEN TRUE
    ELSE IF includes(rq.ifRange.text, <<"\"">>) THEN
        Truthy(rs.etag) /\ includes(rq.ifRange.text, rs.etag.text)
    ELSE rangeDateFresh(rs.lastModified, rq.ifRange)

\* Requests and responses whose If-Match header and entity tag range over
\* all short texts.
IfMatchChars == {"*", ",", " ", "W", "/", "x"}
TagChars == {"W", "/", "x"}

InitIfMatch ==
    /\ pc = "start"
    /\ req \in [ifMatch : {Undefined} \cup
                    {Str(s) : s \in StringsUpTo(IfMatchChars, MaxHeaderLen)},
                ifUnmodifiedSince : {Undefined, Str(DateText(1))},
                ifRange : {Undefined}]
    /\ res \in [etag : {Undefined} \cup
                    {Str(s) : s \in StringsUpTo(TagChars, MaxTagLen)},
                lastModified : {Str(DateText(2))}]
    /\ precond = FALSE
    /\ fresh = FALSE
    /\ IdlePattern /\ IdleRouter /\ IdleTrust /\ IdleQuery

\* Requests and responses whose date headers range over absent, empty,
\* unparsable and every date of the model.
quote == "\""
TagX == <<quote, "x", quote>>
TagY == <<quote, "y", quote>>
DateHeaders ==
    {Undefined, Str(<<>>), Str(<<"g">>)} \cup {Str(DateText(t)) : t \in 1..MaxTime}

InitDates ==
    /\ pc = "start"
    /\ req \in [ifMatch : {Undefined, Str(<<>>), Str(<<"*">>), Str(TagX)},
                ifUnmodifiedSince : DateHeaders,
                ifRange : DateHeaders \cup {Str(TagX), Str(weak(TagX)), Str(TagY)}]
    /\ res \in [etag : {Undefined, Str(TagX), Str(weak(TagX))},
                lastModified : DateHeaders]
    /\ precond = FALSE
    /\ fresh = FALSE
    /\ IdlePattern /\ IdleRouter /\ IdleTrust /\ IdleQuery

\* the response layer asks whether the request must be answered 412
CheckPrecondition ==
    /\ pc = "start"
    /\ precond' = isPreconditionFailure(req, res)
    /\ pc' = "precondition"
    /\ UNCHANGED <<req, res, fresh>>
    /\ UNCHANGED <<patternVars, routerVars, trustVars, queryVars>>

\* the response layer asks whether a Range request still applies
CheckRange ==
    /\ pc = "start"
    /\ fresh' = isRangeFresh(req, res)
    /\ pc' = "range"
    /\ UNCHANGED <<req, res, precond>>
    /\ UNCHANGED <<patternVars, routerVars, trustVars, queryVars>>

NextIfMatch == CheckPrecondition
NextDates == CheckPrecondition \/ CheckRange

SpecIfMatch == InitIfMatch /\ [][NextIfMatch]_vars
SpecDates == InitDates /\ [][NextDates]_vars

-----------------------------------------------------------------------------
(* Claims about the conditional evaluator.                                 *)

\* the token matches the tag in one of the three comparison forms
TagMatches(t, tag) ==
    \/ t = tag
    \/ t = <<"W", "/">> \o tag
    \/ <<"W", "/">> \o t = tag

\* C4: with an If-Match header that is present and not the literal "*",
\* isPreconditionFailure is true iff the response has no current ETag or no
\* token of the header matches the tag in any of the three forms.
C4_IfMatchFailsIffNoTokenMatches ==
    (pc = "precondition" /\ Truthy(req.ifMatch) /\ req.ifMatch.text /= <<"*">>) =>
        (precond <=>
            \/ ~Truthy(res.etag)
            \/ \A k \in 1..Len(parseTokenList(req.ifMatch.text)) :
                   ~TagMatches(parseTokenList(req.ifMatch.text)[k], res.etag.text))

\* If-Match "x" against the weak tag "W/x": the precondition holds
C4_Witness ==
    /\ pc = "precondition"
    /\ req.ifMatch = Str(<<"x">>)
    /\ res.etag = Str(<<"W", "/", "x">>)
    /\ ~precond

\* C5 as stated: with If-Match "*" isPreconditionFailure is never true,
\* whatever the current tag.
C5_StarNeverFails ==
    (pc = "precondition" /\ req.ifMatch = Str(<<"*">>)) => ~precond

\* C5 as amended: with If-Match "*" isPreconditionFailure is true iff the
\* response has no current ETag; with a current tag, whatever it is, it is
\* false.
C5_StarFailsOnlyWithoutTag ==
    (pc = "precondition" /\ req.ifMatch = Str(<<"*">>)) =>
        (precond <=> ~Truthy(res.etag))

\* If-Match "*" against the current tag "x": the precondition holds
C5_Witness ==
    /\ pc = "precondition"
    /\ req.ifMatch = Str(<<"*">>)
    /\ res.etag = Str(<<"x">>)
    /\ ~precond

IsDate(h) == h.defined /\ DateParse(h.text) /= NaN
Timestamp(h) == DateParse(h.text)

\* C6: If-Unmodified-Since counts only without an If-Match header: then,
\* when it is a date, isPreconditionFailure is true iff Last-Modified is no
\* date or is strictly newer; when it is absent or no date the result is
\* false; and with an If-Match header its value does not change the result.
C6_UnmodifiedSinceOnlyWithoutIfMatch ==
    pc = "precondition" =>
        /\ (~Truthy(req.ifMatch) /\ IsDate(req.ifUnmodifiedSince)) =>
              (precond <=>
                  \/ ~IsDate(res.lastModified)
                  \/ Timestamp(res.lastModified) > Timestamp(req.ifUnmodifiedSince))
        /\ (~Truthy(req.ifMatch) /\ ~IsDate(req.ifUnmodifiedSince)) => ~precond
        /\ Truthy(req.ifMatch) =>
              \A d \in DateHeaders :
                  isPreconditionFailure([req EXCEPT !.ifUnmodifiedSince = d], res)
                      = precond

\* no If-Match, equal timestamps: the precondition holds
C6_Witness ==
    /\ pc = "precondition"
    /\ ~req.ifMatch.defined
    /\ req.ifUnmodifiedSince = Str(DateText(2))
    /\ res.lastModified = Str(DateText(2))
    /\ ~precond

IsDateForm(h) == Truthy(h) /\ \A k \in 1..Len(h.text) : h.text[k] /= quote

\* C7 as stated: isRangeFresh is true without an If-Range header; with a
\* date-form header it is true whenever the header or Last-Modified is
\* missing or no date, and with two dates iff Last-Modified is not newer.
C7_RangeFreshOnUnparsable ==
    pc = "range" =>
        /\ ~Truthy(req.ifRange) => fresh
        /\ IsDateForm(req.ifRange) =>
              IF IsDate(req.ifRange) /\ IsDate(res.lastModified)
              THEN fresh <=> Timestamp(res.lastModified) <= Timestamp(req.ifRange)
              ELSE fresh

\* C7 as amended: isRangeFresh returns a boolean for every input; it is true
\* without an If-Range header; with a date-form header it is true iff both
\* the header and Last-Modified are dates and Last-Modified is not strictly
\* newer, so a missing or unparsable date gives false.
C7_RangeStaleOnUnparsable ==
    pc = "range" =>
        /\ fresh \in BOOLEAN
        /\ ~Truthy(req.ifRange) => fresh
        /\ IsDateForm(req.ifRange) =>
              (fresh <=>
                  /\ IsDate(req.ifRange)
                  /\ IsDate(res.lastModified)
                  /\ Timestamp(res.lastModified) <= Timestamp(req.ifRange))

\* a date-form If-Range equal to Last-Modified: the range is fresh
C7_Witness ==
    /\ pc = "range"
    /\ req.ifRange = Str(DateText(2))
    /\ res.lastModified = Str(DateText(2))
    /\ fresh

-----------------------------------------------------------------------------
(* The trust resolver.                                                     *)

MaxHops == 3
MaxTrustLen == 3

\* JavaScript values of the 'trust proxy' setting
Function(id) == [type |-> "function", bool |-> FALSE, num |-> id, text |-> <<>>,
                 items |-> <<>>]
Boolean(b) == [type |-> "boolean", bool |-> b, num |-> 0, text |-> <<>>,
               items |-> <<>>]
Number(n) == [type |-> "number", bool |-> FALSE, num |-> n, text |-> <<>>,
              items |-> <<>>]
String(t) == [type |-> "string", bool |-> FALSE, num |-> 0, text |-> t,
              items |-> <<>>]
Array(items) == [type |-> "array", bool |-> FALSE, num |-> 0, text |-> <<>>,
                 items |-> items]
Null == [type |-> "null", bool |-> FALSE, num |-> 0, text |-> <<>>, items |-> <<>>]
Object == [type |-> "object", bool |-> FALSE, num |-> 0, text |-> <<>>,
           items |-> <<>>]

\* the || operator's test on a value that is neither a number nor a string
truthyValue(v) ==
    \/ v.type \in {"function", "array", "object"}
    \/ v.type = "boolean" /\ v.bool

RECURSIVE split(_, _)
\* String.prototype.split with a one-character separator
split(str, sep) ==
    LET k == indexOfFrom(str, sep, 1) IN
    IF k = 0 THEN <<str>>
    ELSE <<SubSeq(str, 1, k - 1)>> \o split(SubSeq(str, k + 1, Len(str)), sep)

RECURSIVE trimStart(_)
trimStart(str) ==
    IF str /= <<>> /\ Head(str) = " " THEN trimStart(Tail(str)) ELSE str

RECURSIVE trimEnd(_)
trimEnd(str) ==
    IF str /= <<>> /\ str[Len(str)] = " "
    THEN trimEnd(SubSeq(str, 1, Len(str) - 1)) ELSE str

\* String.prototype.trim
trim(str) == trimEnd(trimStart(str))

\* The texts proxy-addr accepts as an address: "1" and "2" stand for two IP
\* literals; every other text of the model is no address.
Addresses == {<<"1">>, <<"2">>}

Threw == [threw |-> TRUE, kind |-> "none", id |-> 0, n |-> 0, list |-> <<>>]
Predicate(kind, id, n, list) ==
    [threw |-> FALSE, kind |-> kind, id |-> id, n |-> n, list |-> list]

\* proxyaddr.compile of the proxy-addr package: a TypeError for an argument
\* that is no array ("unsupported trust argument") and for an entry that is
\* no address ("invalid IP address"), else a membership test
proxyaddrCompile(v) ==
    IF v.type /= "array" THEN Threw
    ELSE IF \E k \in 1..Len(v.items) : v.items[k] \notin Addresses THEN Threw
    ELSE Predicate("list", 0, 0, v.items)

compileTrust(v) ==
    IF v.type = "function" THEN Predicate("function", v.num, 0, <<>>)
    ELSE IF v.type = "boolean" /\ v.bool THEN Predicate("always", 0, 0, <<>>)
    ELSE IF v.type = "number" THEN Predicate("hops", 0, v.num, <<>>)
    ELSE LET parts == split(v.text, ",")
             list  == IF v.type = "string"
                      THEN Array([k \in 1..Len(parts) |-> trim(parts[k])])
                      ELSE v
         IN  proxyaddrCompile(IF truthyValue(list) THEN list ELSE Array(<<>>))

\* The functions a configuration may hand in: function 1 trusts the first
\* hop only, function 2 trusts "1" at any hop.
userFunction(id, a, i) == IF id = 1 THEN i = 0 ELSE a = <<"1">>

\* calling the predicate compileTrust returned, with the hop index off by one
callPredicateInclusive(fn, a, i) ==
    IF fn.kind = "function" THEN userFunction(fn.id, a, i)
    ELSE IF fn.kind = "always" THEN TRUE
    ELSE IF fn.kind = "hops" THEN i <= fn.n
    ELSE \E k \in 1..Len(fn.list) : fn.list[k] = a

\* calling the predicate compileTrust returned
callPredicate(fn, a, i) ==
    IF fn.kind = "function" THEN userFunction(fn.id, a, i)
    ELSE IF fn.kind = "always" THEN TRUE
    ELSE IF fn.kind = "hops" THEN i < fn.n
    ELSE \E k \in 1..Len(fn.list) : fn.list[k] = a

TrustChars == {"1", "2", ",", " ", "z"}
TrustValues ==
    {Function(1), Function(2), Boolean(TRUE), Boolean(FALSE), Null, NoValue, Object}
    \cup {Number(n) : n \in (-1)..MaxHops}
    \cup {String(t) : t \in StringsUpTo(TrustChars, MaxTrustLen)}
    \cup {Array(l) : l \in {<<>>, << <<"1">> >>, << <<"1">>, <<"2">> >>,
                            << <<"z">> >>, << <<>> >>}}

InitTrust ==
    /\ pc = "start"
    /\ trustVal \in TrustValues
    /\ trustFn = NoPredicate
    /\ trustArgs = [addr |-> <<>>, i |-> 0]
    /\ trusted = FALSE
    /\ IdlePattern /\ IdleRouter /\ IdleCond /\ IdleQuery

\* app.set('trust proxy', value)
CompileTrust ==
    /\ pc = "start"
    /\ trustFn' = compileTrust(trustVal)
    /\ pc' = IF trustFn'.threw THEN "threw" ELSE "compiled"
    /\ UNCHANGED <<trustVal, trustArgs, trusted>>
    /\ UNCHANGED <<patternVars, routerVars, condVars, queryVars>>

\* the walk of the forwarded chain asks the predicate about one hop
CallPredicate ==
    /\ pc = "compiled"
    /\ \E a \in Addresses, i \in 0..MaxHops :
        /\ trustArgs' = [addr |-> a, i |-> i]
        /\ trusted' = callPredicate(trustFn, a, i)
    /\ pc' = "applied"
    /\ UNCHANGED <<trustVal, trustFn>>
    /\ UNCHANGED <<patternVars, routerVars, condVars, queryVars>>

NextTrust == CompileTrust \/ CallPredicate

SpecTrust == InitTrust /\ [][NextTrust]_vars

-----------------------------------------------------------------------------
(* Claims about the trust resolver.                                        *)

\* the falsy values among the settings
Falsy(v) ==
    \/ v.type \in {"null", "undefined"}
    \/ v.type = "boolean" /\ ~v.bool
    \/ v.type = "number" /\ v.num = 0
    \/ v.type = "string" /\ v.text = <<>>

\* the entries of a comma-separated text: between two neighbouring commas
\* (or ends of the text), without the spaces around
Entry(t, i, j) ==
    LET inner == {k \in (i + 1)..(j - 1) : t[k] /= " "} IN
    IF inner = {} THEN <<>>
    ELSE SubSeq(t, CHOOSE a \in inner : \A k \in inner : a <= k,
                   CHOOSE b \in inner : \A k \in inner : k <= b)
Cuts(t) == {0, Len(t) + 1} \cup {k \in 1..Len(t) : t[k] = ","}
Entries(t) ==
    {Entry(t, i, j) : <<i, j>> \in
        {c \in Cuts(t) \X Cuts(t) :
            c[1] < c[2] /\ \A k \in (c[1] + 1)..(c[2] - 1) : t[k] /= ","}}
ListedEntries(v) ==
    IF v.type = "string" THEN Entries(v.text)
    ELSE {v.items[k] : k \in 1..Len(v.items)}

\* a shape compileTrust names: a function, true, a number, a falsy value,
\* or a text or list of addresses
Recognized(v) ==
    \/ v.type \in {"function", "number"}
    \/ v.type = "boolean"
    \/ Falsy(v)
    \/ v.type \in {"string", "array"} /\ ListedEntries(v) \subseteq Addresses

\* C9 as stated: compileTrust raises for no value; a function comes back
\* unchanged, true trusts every hop, a number N trusts hop i iff i < N, every
\* falsy value and every unrecognized shape trusts nobody.
C9_NeverRaises ==
    /\ pc /= "threw"
    /\ (pc \in {"compiled", "applied"} /\ trustVal.type = "function") =>
          trustFn = Predicate("function", trustVal.num, 0, <<>>)
    /\ pc = "applied" =>
          /\ trustVal = Boolean(TRUE) => trusted
          /\ trustVal.type = "number" => (trusted <=> trustArgs.i < trustVal.num)
          /\ Falsy(trustVal) => ~trusted
          /\ ~Recognized(trustVal) => ~trusted

\* C9 as amended: a function comes back unchanged, true trusts every hop, a
\* number N trusts hop i iff i < N, and false, null and undefined trust
\* nobody; a text (split on commas, entries trimmed) or a list is compiled by
\* proxy-addr into a membership test when all its entries are addresses, and
\* compileTrust raises exactly when an entry is no address (as the single
\* entry of the empty text) or the value is of another shape (an object).
C9_RaisesOnInvalidEntries ==
    /\ (pc \in {"compiled", "applied"} /\ trustVal.type = "function") =>
          trustFn = Predicate("function", trustVal.num, 0, <<>>)
    /\ pc = "applied" =>
          /\ trustVal = Boolean(TRUE) => trusted
          /\ trustVal.type = "number" => (trusted <=> trustArgs.i < trustVal.num)
          /\ (trustVal.type \in {"null", "undefined"} \/ trustVal = Boolean(FALSE))
                => ~trusted
          /\ trustVal.type \in {"string", "array"} =>
                (trusted <=> trustArgs.addr \in ListedEntries(trustVal))
    /\ pc /= "start" =>
          (pc = "threw" <=>
              \/ trustVal.type = "object"
              \/ /\ trustVal.type \in {"string", "array"}
                 /\ ~(ListedEntries(trustVal) \subseteq Addresses))

\* compileTrust(2) asked about hop 2: not trusted
C9_Witness ==
    /\ pc = "applied"
    /\ trustVal = Number(2)
    /\ trustArgs.i = 2
    /\ ~trusted

-----------------------------------------------------------------------------
(* The query parser dispatcher.                                            *)

MaxCoreLen == 3
FastPathLimit == 128

\* what fastQueryParse returns: the parser called and whether the caller's
\* options went with the call
fastQueryParse(q) ==
    IF Len(q) <= FastPathLimit
       /\ ~includes(q, <<"[">>)
       /\ ~includes(q, <<"%", "5", "B">>)
       /\ ~includes(q, <<".">>)
       /\ ~includes(q, <<"%", "2", "E">>)
    THEN [name |-> "querystring", options |-> FALSE]
    ELSE [name |-> "qs", options |-> TRUE]

\* Query strings: a short text over the characters the dispatcher looks
\* for, followed by a run of "a" that brings the length up to the limit.
QueryChars == {"[", ".", "%", "5", "B", "b", "2", "E", "e"}
PadLens == {0} \cup ((FastPathLimit - MaxCoreLen - 1)..(FastPathLimit + 1))
Queries ==
    {core \o [k \in 1..pad |-> "a"] :
        core \in StringsUpTo(QueryChars, MaxCoreLen), pad \in PadLens}

NoParser == [name |-> "none", options |-> FALSE]

InitQuery ==
    /\ pc = "start"
    /\ query \in Queries
    /\ parser = NoParser
    /\ IdlePattern /\ IdleRouter /\ IdleCond /\ IdleTrust

\* req.query is read for the first time
ParseQuery ==
    /\ pc = "start"
    /\ parser' = fastQueryParse(query)
    /\ pc' = "parsed"
    /\ UNCHANGED query
    /\ UNCHANGED <<patternVars, routerVars, condVars, trustVars>>

NextQuery == ParseQuery

SpecQuery == InitQuery /\ [][NextQuery]_vars

-----------------------------------------------------------------------------
(* Claims about the query parser dispatcher.                               *)

\* the value of a hexadecimal digit, in either case (-1: no digit)
HexValue(c) ==
    CASE c = "0" -> 0 [] c = "1" -> 1 [] c = "2" -> 2 [] c = "3" -> 3
      [] c = "4" -> 4 [] c = "5" -> 5 [] c = "6" -> 6 [] c = "7" -> 7
      [] c = "8" -> 8 [] c = "9" -> 9
      [] c \in {"A", "a"} -> 10 [] c \in {"B", "b"} -> 11
      [] c \in {"C", "c"} -> 12 [] c \in {"D", "d"} -> 13
      [] c \in {"E", "e"} -> 14 [] c \in {"F", "f"} -> 15
      [] OTHER -> -1

\* the query carries the character with this code as a percent-encoded
\* triplet, as decodeURIComponent and both parsers read it
CarriesEncoded(q, code) ==
    \E i \in 1..(Len(q) - 2) :
        /\ q[i] = "%"
        /\ HexValue(q[i + 1]) >= 0
        /\ HexValue(q[i + 2]) >= 0
        /\ 16 * HexValue(q[i + 1]) + HexValue(q[i + 2]) = code

\* C10: fastQueryParse uses the flat parser iff the query is at most 128
\* characters long and carries no "[" and no ".", literal or percent-encoded
\* (character codes 91 and 46); every other query goes to the full parser
\* together with the caller's options.
C10_FastPathIffNoBracketOrDot ==
    pc = "parsed" =>
        /\ parser.name = "querystring" <=>
              /\ Len(query) <= 128
              /\ ~includes(query, <<"[">>) /\ ~CarriesEncoded(query, 91)
              /\ ~includes(query, <<".">>) /\ ~CarriesEncoded(query, 46)
        /\ parser.name /= "querystring" => parser = [name |-> "qs", options |-> TRUE]

====
